---- MODULE Spec2Model ----
(***************************************************************************)
(* Model of pretix_capacity_reports/exporter.py: the multi-sheet           *)
(* "Capacity & Utilization" export (BaseMSLE._render_xlsx driving          *)
(* CapacityUtilizationReport.iterate_sheet and its four pivot generators)  *)
(* and the "Capacity creation" export (CapacityCreationReport).            *)
(*                                                                         *)
(* Dates are proleptic Gregorian ordinals (datetime.date.toordinal()):     *)
(* ordinal 1 is Monday 0001-01-01.  Datetimes are counted in half days in  *)
(* the report's time zone: 2*d is 00:00 of day d, 2*d+1 is 12:00 of day d. *)
(***************************************************************************)
EXTENDS Integers, Sequences, FiniteSets, TLC

VARIABLES
    form_data,   \* the cleaned form: date_from, date_to, product_name, meta
    db,          \* the host's tables: events, subevents, quotas, positions
    self,        \* instance fields set by iterate_sheet
    pc,          \* position of the invocation
    i_sheet,     \* index (1-based) of the sheet _render_xlsx is working on
    wb,          \* the workbook: one worksheet per created sheet
    ncalls,      \* number of queries issued per fact stream
    artifact,    \* what _render_xlsx handed back
    call,        \* a direct call of iterate_sheet: its sheet key and outcome
    iter,        \* a direct use of the range generators: their output
    maps         \* the four maps handed to a pivot generator called directly

vars == <<form_data, db, self, pc, i_sheet, wb, ncalls, artifact, call, iter, maps>>

----------------------------------------------------------------------------
(* Bounds of the model *)

\* first and last ordinal of the window the report inputs are drawn from
\* (ordinal 5 is a Friday, 6 a Saturday)
FirstDay == 5
LastDay == 7
\* last ordinal of the window the range generators are exercised on
IterLastDay == 15

Days == FirstDay..LastDay
IterDays == 1..IterLastDay

\* a null column value, and an instance field not set yet
NULL == -1

----------------------------------------------------------------------------
(* Dates and datetimes *)

\* date.weekday(): Monday is 0, Saturday is 5
weekday(dt) == (dt + 6) % 7

\* make_aware(datetime.combine(d, time(0, 0)), tz)
Midnight(d) == 2 * d
Noon(d) == 2 * d + 1

\* TruncDay(x, tzinfo=tz)
TruncDay(x) == 2 * (x \div 2)

\* r['day'].astimezone(tz).date()
DateOf(x) == x \div 2

\* dt.strftime('%m/%d/%Y') of an ordinal of January of year 1
strftime(dt) == <<1, dt, 1>>

----------------------------------------------------------------------------
(* The range generators *)

RECURSIVE DateIterFrom(_, _)
DateIterFrom(dt, until) ==
    IF dt <= until THEN <<dt>> \o DateIterFrom(dt + 1, until) ELSE <<>>

\* the loop with `<` for `<=`: the end date is left out
DateIterExclusive(from, until) == DateIterFrom(from, until - 1)

\* a reversed range put in order before the loop
DateIterSwapped(from, until) ==
    IF from <= until THEN DateIterFrom(from, until) ELSE DateIterFrom(until, from)

\* _date_iter over explicit fields
DateIter(from, until) == DateIterFrom(from, until)

RECURSIVE WeekIterDropTail(_, _, _)
\* the loop without its closing `if current_week: yield current_week`
WeekIterDropTail(dt, until, current_week) ==
    IF dt <= until
    THEN LET cw == Append(current_week, dt)
         IN  IF weekday(dt) = 5
             THEN <<cw>> \o WeekIterDropTail(dt + 1, until, <<>>)
             ELSE WeekIterDropTail(dt + 1, until, cw)
    ELSE <<>>

RECURSIVE WeekIterFrom(_, _, _)
WeekIterFrom(dt, until, current_week) ==
    IF dt <= until
    THEN LET cw == Append(current_week, dt)
         IN  IF weekday(dt) = 5
             THEN <<cw>> \o WeekIterFrom(dt + 1, until, <<>>)
             ELSE WeekIterFrom(dt + 1, until, cw)
    ELSE IF current_week # <<>> THEN <<current_week>> ELSE <<>>

\* _week_iter over explicit fields
WeekIter(from, until) == WeekIterFrom(from, until, <<>>)

_date_iter == DateIter(self.date_from, self.date_until)
_week_iter == WeekIter(self.date_from, self.date_until)

----------------------------------------------------------------------------
(* The host's tables *)

\* Order.STATUS_PAID, Order.STATUS_PENDING
STATUS_PAID == "p"
STATUS_PENDING == "n"

\* CapacityUtilizationReport.meta_name
meta_name == "AgencyNumber"

\* the values the AgencyNumber property takes among the organizer's events
Agencies == {"A1", "A2"}

\* line 132: sorted(values), the values in string order
AgencyOrder == <<"A1", "A2">>

\* The events of the organizer: e1 is an event series of agency A1, e2 a
\* single event of agency A1, e3 an event series of agency A2.  `name` is the
\* rank of str(e.name) in string order.  day[e] is the day the event starts.
EventTable(day) ==
    { [pk |-> 1, slug |-> "e1", name |-> 2, has_subevents |-> TRUE,
       meta |-> "A1", date_from |-> Noon(day[1])],
      [pk |-> 2, slug |-> "e2", name |-> 1, has_subevents |-> FALSE,
       meta |-> "A1", date_from |-> Noon(day[2])],
      [pk |-> 3, slug |-> "e3", name |-> 3, has_subevents |-> TRUE,
       meta |-> "A2", date_from |-> Midnight(day[3])] }

\* The timeslots: e1 has one at 00:00 of its first day and one at 12:00 of
\* day2; e3 has one at 12:00 of its day.
SubEventTable(day, day2) ==
    { [pk |-> 11, event |-> 1, date_from |-> Midnight(day[1])],
      [pk |-> 12, event |-> 1, date_from |-> Noon(day2)],
      [pk |-> 31, event |-> 3, date_from |-> Noon(day[3])] }

\* Quotas: scoped to a timeslot for the series, to the event for e2; two of
\* them are unlimited (size NULL).
QuotaTable ==
    { [pk |-> 1, event |-> 1, subevent |-> 11, size |-> 10],
      [pk |-> 2, event |-> 1, subevent |-> 12, size |-> 20],
      [pk |-> 3, event |-> 1, subevent |-> 11, size |-> NULL],
      [pk |-> 4, event |-> 2, subevent |-> NULL, size |-> 7],
      [pk |-> 5, event |-> 2, subevent |-> NULL, size |-> NULL],
      [pk |-> 6, event |-> 3, subevent |-> 31, size |-> 5] }

\* Order positions with the status of their order and their check-ins.
PositionTable ==
    { [pk |-> 1, event |-> 1, subevent |-> 11, status |-> STATUS_PAID, checkins |-> 1],
      [pk |-> 2, event |-> 1, subevent |-> 11, status |-> STATUS_PENDING, checkins |-> 0],
      [pk |-> 3, event |-> 1, subevent |-> 12, status |-> STATUS_PAID, checkins |-> 0],
      [pk |-> 4, event |-> 1, subevent |-> 11, status |-> "c", checkins |-> 1],
      [pk |-> 5, event |-> 2, subevent |-> NULL, status |-> STATUS_PAID, checkins |-> 1],
      [pk |-> 6, event |-> 2, subevent |-> NULL, status |-> "e", checkins |-> 0],
      [pk |-> 7, event |-> 3, subevent |-> 31, status |-> STATUS_PAID, checkins |-> 2],
      [pk |-> 8, event |-> 3, subevent |-> 31, status |-> STATUS_PENDING, checkins |-> 0] }

EventIds == {1, 2, 3}

\* LogEntry rows: an event is logged when it is set up, on the day the next
\* event of the catalog starts, and again a day and a half later.
LogTable(day) ==
    {[event |-> e, datetime |-> Noon(day[(e % 3) + 1])] : e \in EventIds} \cup
    {[event |-> e, datetime |-> Midnight(day[(e % 3) + 1] + 2)] : e \in EventIds}

Database(day, day2) ==
    [events |-> EventTable(day), subevents |-> SubEventTable(day, day2),
     quotas |-> QuotaTable, positions |-> PositionTable, logs |-> LogTable(day)]

EventOf(pk) == CHOOSE e \in db.events : e.pk = pk
SubEventOf(pk) == CHOOSE s \in db.subevents : s.pk = pk

\* Coalesce('subevent__date_from', 'event__date_from') of a quota or position
CoalesceDate(r) ==
    IF r.subevent # NULL THEN SubEventOf(r.subevent).date_from
    ELSE EventOf(r.event).date_from

----------------------------------------------------------------------------
(* Sequence helpers *)

RECURSIVE SeqSum(_)
\* sum(..., start=0)
SeqSum(s) == IF s = <<>> THEN 0 ELSE Head(s) + SeqSum(Tail(s))

RECURSIVE Concat(_)
\* the rows of nested loops, in order
Concat(ss) == IF ss = <<>> THEN <<>> ELSE Head(ss) \o Concat(Tail(ss))

RECURSIVE SumOver(_, _)
\* Sum('size') over a set of rows
SumOver(S, field) ==
    IF S = {} THEN 0
    ELSE LET r == CHOOSE x \in S : TRUE
         IN  r[field] + SumOver(S \ {r}, field)

RECURSIVE SortByName(_)
\* sorted(..., key=lambda e: str(e.name))
SortByName(S) ==
    IF S = {} THEN <<>>
    ELSE LET e == CHOOSE x \in S : \A y \in S : x.name <= y.name
         IN  <<e>> \o SortByName(S \ {e})

\* dict.get(key, 0)
Get(map, key) == IF key \in DOMAIN map THEN map[key] ELSE 0

\* x or 0: None and 0 both give 0
OrZero(x) == IF x = NULL THEN 0 ELSE x

\* the lookup with the `or 0` left out
GetAsStored(map, key) == Get(map, key)

\* map.get(key, 0) or 0
GetOrZero(map, key) == OrZero(Get(map, key))

----------------------------------------------------------------------------
(* The fact providers: the four queries of iterate_sheet.  `s` is the       *)
(* instance after iterate_sheet has set its fields.  The export runs for an *)
(* organizer (is_multievent), so form_data carries the selected values of   *)
(* the property under 'meta:AgencyNumber'; product_name is left empty.      *)

Range(f) == {f[i] : i \in DOMAIN f}

\* date_from__gte=self.datetime_from, date_from__lt=self.datetime_until
InWindow(s, x) == x >= s.datetime_from /\ x < s.datetime_until

\* Exists(EventMetaValue(event=..., property__name=n, value__in=form_data['meta:n']))
HasSelectedValue(event) == EventOf(event).meta \in Range(form_data.meta)

\* self.events
events == {e.pk : e \in db.events}

_subevent_qs(s) ==
    {r \in db.subevents :
        /\ r.event \in events
        /\ InWindow(s, r.date_from)
        /\ HasSelectedValue(r.event)}

\* _base_quota_qs over the rows of a quota table
QuotaRows(s, table) ==
    {r \in table :
        /\ \/ r.subevent # NULL /\ InWindow(s, SubEventOf(r.subevent).date_from)
           \/ r.subevent = NULL /\ InWindow(s, EventOf(r.event).date_from)
        /\ r.event \in events
        /\ r.subevent # NULL
        /\ SubEventOf(r.subevent).date_from >= s.datetime_from
        /\ SubEventOf(r.subevent).date_from < s.datetime_until
        /\ HasSelectedValue(r.event)}

_base_quota_qs(s) == QuotaRows(s, db.quotas)

_base_position_qs(s, has_checkin) ==
    {r \in db.positions :
        /\ \/ r.subevent # NULL /\ InWindow(s, SubEventOf(r.subevent).date_from)
           \/ r.subevent = NULL /\ InWindow(s, EventOf(r.event).date_from)
        /\ r.event \in events
        /\ r.status \in {STATUS_PAID, STATUS_PENDING}
        /\ HasSelectedValue(r.event)
        /\ has_checkin => r.checkins > 0}

\* the (day, event_id) key of a row of a stream
SubevKey(r) == <<DateOf(TruncDay(r.date_from)), r.event>>
FactKey(r) == <<DateOf(TruncDay(CoalesceDate(r))), r.event>>

\* .values('day', 'event_id').annotate(c=Count('*')) as a dict
Subevs(s) ==
    LET qs == _subevent_qs(s)
    IN  [k \in {SubevKey(r) : r \in qs} |->
            Cardinality({r \in qs : SubevKey(r) = k})]

\* the sum taken over every quota, the marker of an unlimited one included
QuotaMapAll(rows) ==
    [k \in {FactKey(r) : r \in rows} |->
        SumOver({r \in rows : FactKey(r) = k}, "size")]

\* .filter(size__isnull=False) ... .annotate(c=Sum('size')) as a dict
QuotaMap(rows) ==
    LET qs == {r \in rows : r.size # NULL}
    IN  [k \in {FactKey(r) : r \in qs} |->
            SumOver({r \in qs : FactKey(r) = k}, "size")]

\* lines 181-188: the quota map of the instance
Quotas(s) == QuotaMap(_base_quota_qs(s))

Orders(s) ==
    LET qs == _base_position_qs(s, FALSE)
    IN  [k \in {FactKey(r) : r \in qs} |->
            Cardinality({r \in qs : FactKey(r) = k})]

Checkins(s) ==
    LET qs == _base_position_qs(s, TRUE)
    IN  [k \in {FactKey(r) : r \in qs} |->
            Cardinality({r \in qs : FactKey(r) = k})]

\* the order of the event queryset is immaterial to every sum; pk order here
CachedEvents == SortByName({[e EXCEPT !.name = e.pk] : e \in db.events})

\* list(self.events.prefetch_related(...))
cached_events ==
    [i \in DOMAIN CachedEvents |-> EventOf(CachedEvents[i].pk)]

\* lines 144-162 and 164: the instance after iterate_sheet set its fields
SelfOf(fd) ==
    [date_from |-> fd.date_from,
     date_until |-> fd.date_to,
     datetime_from |-> Midnight(fd.date_from),
     datetime_until |-> Midnight(fd.date_to + 1),
     cached_events |-> cached_events]

----------------------------------------------------------------------------
(* The pivot view generators.  A worksheet row is a record: `kind` tells a  *)
(* header row, a data row, a metric row of a matrix and the empty separator *)
(* row apart; `cells` are its leading text cells and `cols` / `nums` the    *)
(* cells that follow them.                                                  *)

\* sorted([e for e in self.cached_events if e.meta_data[meta_name] == mv], key=name)
GroupEvents(s, mv) == SortByName({e \in Range(s.cached_events) : e.meta = mv})

\* the sum taken for the first event of the group alone
GroupSumOfFirst(map, evs, dt) ==
    IF evs = <<>> THEN 0 ELSE GetOrZero(map, <<dt, evs[1].pk>>)

\* sum((map.get((dt, e.pk), 0) or 0 for e in evs), start=0)
GroupSum(map, evs, dt) ==
    SeqSum([i \in DOMAIN evs |-> GetOrZero(map, <<dt, evs[i].pk>>)])

\* lines 400-401: sum((map.get((dt, e.pk), 0) for e in evs), start=0)
GroupCount(map, evs, dt) ==
    SeqSum([i \in DOMAIN evs |-> Get(map, <<dt, evs[i].pk>>)])

\* the week taken for its first day alone
WeekSumFirstDay(map, evs, w) == GroupSum(map, evs, w[1])

\* sum(sum(... for e in evs) for dt in w)
WeekSum(map, evs, w) == SeqSum([i \in DOMAIN w |-> GroupSum(map, evs, w[i])])

\* with no guard at all, every event gets a row on every date
SkipsNoRow(e, subevcnt) == FALSE

\* line 364: if e.has_subevents and not subevcnt: continue
SkipsRow(e, subevcnt) == e.has_subevents /\ subevcnt = 0

iterate_date_agency_event(s, meta_values, subevs, quotas, orders, checkins) ==
    LET dates == DateIter(s.date_from, s.date_until)
        Row(mv, e, dt) ==
            LET subevcnt == Get(subevs, <<dt, e.pk>>)
            IN  IF SkipsRow(e, subevcnt)
                THEN <<>>
                ELSE << [kind |-> "data", date |-> strftime(dt), mv |-> mv,
                         slug |-> e.slug,
                         nums |-> <<subevcnt,
                                    GetOrZero(quotas, <<dt, e.pk>>),
                                    Get(orders, <<dt, e.pk>>),
                                    Get(checkins, <<dt, e.pk>>)>>] >>
        OfEvent(mv, e) == Concat([k \in DOMAIN dates |-> Row(mv, e, dates[k])])
        OfValue(mv) ==
            LET evs == GroupEvents(s, mv)
            IN  Concat([j \in DOMAIN evs |-> OfEvent(mv, evs[j])])
    IN  << [kind |-> "header",
            cells |-> <<"Date of Event", meta_name, "Event ID",
                        "Number of Timeslots", "Sum of Quota", "Sum of Orders",
                        "Sum of Checked in">>] >>
        \o Concat([i \in DOMAIN meta_values |-> OfValue(meta_values[i])])

\* counting every event of the group, with or without a timeslot on dt
CountsAll(evs, subevs, dt) == Len(evs)

\* line 394: the events of the group that take place on dt
EventCount(evs, subevs, dt) ==
    SeqSum([j \in DOMAIN evs |->
        IF ~evs[j].has_subevents \/ Get(subevs, <<dt, evs[j].pk>>) # 0
        THEN 1 ELSE 0])

iterate_date_agency(s, meta_values, subevs, quotas, orders, checkins) ==
    LET dates == DateIter(s.date_from, s.date_until)
        Row(mv, evs, dt) ==
            LET evcnt == EventCount(evs, subevs, dt)
            IN  IF evcnt = 0
                THEN <<>>
                ELSE << [kind |-> "data", date |-> strftime(dt), mv |-> mv,
                         nums |-> <<evcnt,
                                    GroupSum(quotas, evs, dt),
                                    GroupCount(orders, evs, dt),
                                    GroupCount(checkins, evs, dt)>>] >>
        OfValue(mv) ==
            LET evs == GroupEvents(s, mv)
            IN  Concat([k \in DOMAIN dates |-> Row(mv, evs, dates[k])])
    IN  << [kind |-> "header",
            cells |-> <<"Date of Event", meta_name, "Number of Events",
                        "Sum of Quotas", "Sum of Orders", "Sum of Checked in">>] >>
        \o Concat([i \in DOMAIN meta_values |-> OfValue(meta_values[i])])

\* the three metric rows of one block of the day matrix
DayBlock(label, evs, dates, quotas, orders, checkins) ==
    << [kind |-> "metric", cells |-> <<label, "Sum of Quotas">>,
        cols |-> [k \in DOMAIN dates |-> GroupSum(quotas, evs, dates[k])]],
       [kind |-> "metric", cells |-> <<"", "Sum of Orders">>,
        cols |-> [k \in DOMAIN dates |-> GroupSum(orders, evs, dates[k])]],
       [kind |-> "metric", cells |-> <<"", "Sum of Checked in">>,
        cols |-> [k \in DOMAIN dates |-> GroupSum(checkins, evs, dates[k])]] >>

iterate_agency_date_day(s, meta_values, subevs, quotas, orders, checkins) ==
    LET dates == DateIter(s.date_from, s.date_until)
        OfValue(mv) ==
            DayBlock(mv, GroupEvents(s, mv), dates, quotas, orders, checkins)
            \o << [kind |-> "blank"] >>
    IN  << [kind |-> "header", cells |-> <<meta_name, "">>,
            cols |-> [k \in DOMAIN dates |-> strftime(dates[k])]] >>
        \o Concat([i \in DOMAIN meta_values |-> OfValue(meta_values[i])])
        \o DayBlock("Total", s.cached_events, dates, quotas, orders, checkins)

\* the three metric rows of one block of the week matrix
WeekBlock(label, evs, weeks, quotas, orders, checkins) ==
    << [kind |-> "metric", cells |-> <<label, "Sum of Quotas">>,
        cols |-> [k \in DOMAIN weeks |-> WeekSum(quotas, evs, weeks[k])]],
       [kind |-> "metric", cells |-> <<"", "Sum of Orders">>,
        cols |-> [k \in DOMAIN weeks |-> WeekSum(orders, evs, weeks[k])]],
       [kind |-> "metric", cells |-> <<"", "Sum of Checked in">>,
        cols |-> [k \in DOMAIN weeks |-> WeekSum(checkins, evs, weeks[k])]] >>

iterate_agency_date_week(s, meta_values, subevs, quotas, orders, checkins) ==
    LET weeks == WeekIter(s.date_from, s.date_until)
        OfValue(mv) ==
            WeekBlock(mv, GroupEvents(s, mv), weeks, quotas, orders, checkins)
            \o << [kind |-> "blank"] >>
    IN  << [kind |-> "header", cells |-> <<"", "">>,
            cols |-> [k \in DOMAIN weeks |-> "Week"]],
           [kind |-> "header", cells |-> <<"", "First day">>,
            cols |-> [k \in DOMAIN weeks |-> strftime(weeks[k][1])]],
           [kind |-> "header", cells |-> <<meta_name, "Last day">>,
            cols |-> [k \in DOMAIN weeks |-> strftime(weeks[k][Len(weeks[k])])]] >>
        \o Concat([i \in DOMAIN meta_values |-> OfValue(meta_values[i])])
        \o WeekBlock("Total", s.cached_events, weeks, quotas, orders, checkins)

----------------------------------------------------------------------------
(* iterate_sheet, and _render_xlsx                                          *)

\* the matrix sheets declared ahead of the row sheets
sheetsMatrixFirst ==
    <<"agency_date_day", "agency_date_week", "date_agency_event", "date_agency">>

\* CapacityUtilizationReport.sheets
sheets == <<"date_agency_event", "date_agency", "agency_date_day", "agency_date_week">>

\* a sheet key the class defines no iterate_<key> for
UnregisteredKey == "summary"

\* hasattr(self, 'iterate_' + sheet)
HasIterate(sheet) == sheet \in Range(sheets)

\* the fact streams, in the order iterate_sheet queries them
Streams == <<"subevs", "quotas", "orders", "checkins">>

\* the selected values put in order first
MetaValuesSorted == SelectSeq(AgencyOrder, LAMBDA v : v \in Range(form_data.meta))

\* line 202: meta_values = form_data['meta:AgencyNumber'], in the order handed over
MetaValues == form_data.meta

\* lines 203-204: getattr(self, 'iterate_' + sheet)(form_data, meta_values, ...)
Dispatch(s, sheet, meta_values, subevs, quotas, orders, checkins) ==
        IF ~HasIterate(sheet) THEN <<>>
        ELSE CASE sheet = "date_agency_event" ->
                    iterate_date_agency_event(s, meta_values, subevs, quotas, orders, checkins)
               [] sheet = "date_agency" ->
                    iterate_date_agency(s, meta_values, subevs, quotas, orders, checkins)
               [] sheet = "agency_date_day" ->
                    iterate_agency_date_day(s, meta_values, subevs, quotas, orders, checkins)
               [] sheet = "agency_date_week" ->
                    iterate_agency_date_week(s, meta_values, subevs, quotas, orders, checkins)

\* lines 202-204: the rows of a sheet's generator, handed the quota map
SheetRowsWith(s, sheet, quotas) ==
    Dispatch(s, sheet, MetaValues, Subevs(s), quotas, Orders(s), Checkins(s))

\* lines 143-204: the rows iterate_sheet yields once its four queries are through
SheetRows(s, sheet) == SheetRowsWith(s, sheet, Quotas(s))

\* the queries issued by one run of iterate_sheet whose fail-th query raises
\* (0: none does): every stream up to the failing one is asked once
IssuedBy(fail) ==
    [st \in Range(Streams) |->
        IF fail = 0 \/ (\E k \in 1..fail : Streams[k] = st) THEN 1 ELSE 0]

CountQueries(n, fail) == [st \in Range(Streams) |-> n[st] + IssuedBy(fail)[st]]

\* prepare_xlsx_sheet_<key>(ws): the freeze pane and the number of columns
\* given a width; the matrix sheets read the instance's date range
SheetHint(sheet) ==
    CASE sheet = "date_agency_event" -> [freeze_panes |-> "A2", widths |-> 7]
      [] sheet = "date_agency" -> [freeze_panes |-> "A2", widths |-> 6]
      [] sheet = "agency_date_day" -> [freeze_panes |-> "C2", widths |-> 2 + Len(_date_iter)]
      [] sheet = "agency_date_week" -> [freeze_panes |-> "C4", widths |-> 2 + Len(_week_iter)]

HookReadsRange(sheet) == sheet \in {"agency_date_day", "agency_date_week"}

Unset == [date_from |-> NULL, date_until |-> NULL, datetime_from |-> NULL,
          datetime_until |-> NULL, cached_events |-> <<>>]

NoArtifact == [kind |-> "none", sheets |-> <<>>]
NoCall == [report |-> "", sheet |-> "", state |-> "none", error |-> "", rows |-> <<>>]
NoIter == [days |-> <<>>, weeks |-> <<>>]
NoMaps == [subevs |-> <<>>, quotas |-> <<>>, orders |-> <<>>, checkins |-> <<>>]

\* the selections the form hands over: the checked values, none twice
Selections ==
    {m \in UNION {[1..n -> Agencies] : n \in 1..Cardinality(Agencies)} :
        \A i, j \in DOMAIN m : i # j => m[i] # m[j]}

Inputs ==
    /\ form_data \in [date_from : Days, date_to : Days, product_name : {""},
                      meta : Selections]
    /\ \E day \in [EventIds -> Days], day2 \in Days : db = Database(day, day2)
    /\ self = Unset
    /\ i_sheet = 1
    /\ wb = <<>>
    /\ ncalls = [st \in Range(Streams) |-> 0]
    /\ artifact = NoArtifact

Init ==
    /\ Inputs
    /\ pc = "prepare"
    /\ call = NoCall
    /\ iter = NoIter
    /\ maps = NoMaps

\* lines 28-30: create the worksheet and run its hook
PrepareSheet ==
    /\ pc = "prepare"
    /\ LET s == sheets[i_sheet]
       IN  IF HookReadsRange(s) /\ self.date_from = NULL
           THEN /\ pc' = "error"
                /\ wb' = Append(wb, [title |-> s, hint |-> [freeze_panes |-> "", widths |-> 0], rows |-> <<>>])
           ELSE /\ pc' = "iterate"
                /\ wb' = Append(wb, [title |-> s, hint |-> SheetHint(s), rows |-> <<>>])
    /\ UNCHANGED <<form_data, db, maps, self, i_sheet, ncalls, artifact, call, iter>>

\* iterate_sheet keeping the maps of the first sheet for the later ones
IterateSheetShared ==
    /\ pc = "iterate"
    /\ self' = SelfOf(form_data)
    /\ ncalls' = IF self = Unset THEN CountQueries(ncalls, 0) ELSE ncalls
    /\ wb' = [wb EXCEPT ![i_sheet].rows = SheetRows(SelfOf(form_data), sheets[i_sheet])]
    /\ IF i_sheet < Len(sheets)
       THEN i_sheet' = i_sheet + 1 /\ pc' = "prepare"
       ELSE i_sheet' = i_sheet /\ pc' = "save"
    /\ UNCHANGED <<form_data, db, maps, artifact, call, iter>>

\* lines 32-45: consume iterate_sheet(form_data, sheet=s) into the worksheet
IterateSheet ==
    /\ pc = "iterate"
    /\ self' = SelfOf(form_data)
    /\ ncalls' = CountQueries(ncalls, 0)
    /\ wb' = [wb EXCEPT ![i_sheet].rows = SheetRows(SelfOf(form_data), sheets[i_sheet])]
    /\ IF i_sheet < Len(sheets)
       THEN i_sheet' = i_sheet + 1 /\ pc' = "prepare"
       ELSE i_sheet' = i_sheet /\ pc' = "save"
    /\ UNCHANGED <<form_data, db, maps, artifact, call, iter>>

\* a query of iterate_sheet raises: the exception leaves _render_xlsx
QueryFails ==
    /\ pc = "iterate"
    /\ \E fail \in DOMAIN Streams :
          ncalls' = CountQueries(ncalls, fail)
    /\ self' = SelfOf(form_data)
    /\ pc' = "error"
    /\ UNCHANGED <<form_data, db, maps, i_sheet, wb, artifact, call, iter>>

\* the save moved into a `finally:`, reached after an exception as well
SaveAlways ==
    /\ pc \in {"save", "error"}
    /\ \E output_file \in BOOLEAN :
          artifact' = [kind |-> IF output_file THEN "file" ELSE "bytes", sheets |-> wb]
    /\ pc' = "done"
    /\ UNCHANGED <<form_data, db, maps, self, i_sheet, wb, ncalls, call, iter>>

\* lines 47-54: wb.save to the sink handed in, or to a temporary file read back
Save ==
    /\ pc = "save"
    /\ \E output_file \in BOOLEAN :
          artifact' = [kind |-> IF output_file THEN "file" ELSE "bytes", sheets |-> wb]
    /\ pc' = "done"
    /\ UNCHANGED <<form_data, db, maps, self, i_sheet, wb, ncalls, call, iter>>

Next == PrepareSheet \/ IterateSheet \/ QueryFails \/ Save

Spec == Init /\ [][Next]_vars

----------------------------------------------------------------------------
(* CapacityCreationReport: the events by the day they were created *)

\* CapacityCreationReport.sheets
creation_sheets == <<"date_agency">>

\* hasattr(self, 'iterate_' + sheet) on a CapacityCreationReport
CreationHasIterate(sheet) == sheet \in Range(creation_sheets)

\* lines 575-594: the instance after CapacityCreationReport.iterate_sheet set
\* its fields; it keeps no event cache
CreationSelfOf(fd) == [SelfOf(fd) EXCEPT !.cached_events = <<>>]

\* Sum(field) of a group: NULL values are left out, no value at all gives NULL
SumNullable(S, field) ==
    LET vals == {a \in S : a[field] # NULL}
    IN  IF vals = {} THEN NULL ELSE SumOver(vals, field)

\* Count('*') in a subquery: no row, hence NULL, where nothing matches
CountNullable(S) == IF S = {} THEN NULL ELSE Cardinality(S)

\* the rank of a value in string order
AgencyRank(v) == CHOOSE i \in DOMAIN AgencyOrder : AgencyOrder[i] = v

RECURSIVE OrderByDateValue(_)
\* .order_by('creation_date', 'meta_value') of the (creation_date, meta_value) groups
OrderByDateValue(K) ==
    IF K = {} THEN <<>>
    ELSE LET k == CHOOSE x \in K : \A y \in K :
                      \/ x[1] < y[1]
                      \/ x[1] = y[1] /\ AgencyRank(x[2]) <= AgencyRank(y[2])
         IN  <<k>> \o OrderByDateValue(K \ {k})

\* the n_quotas subquery with no filter on the size
CreationQuotasAll(table, pk) ==
    LET qs == {q \in table : q.event = pk}
    IN  IF qs = {} THEN NULL ELSE SumOver(qs, "size")

\* lines 622-627: Quota.objects.filter(size__isnull=False, event=pk) ... Sum('size')
CreationQuotas(table, pk) ==
    LET qs == {q \in table : q.size # NULL /\ q.event = pk}
    IN  IF qs = {} THEN NULL ELSE SumOver(qs, "size")

\* lines 611-641: self.events annotated with the creation time and the sums
AnnotatedEvents(table) ==
    {[pk |-> e.pk,
      creation_datetime |->
          LET ds == {l.datetime : l \in {l \in db.logs : l.event = e.pk}}
          IN  IF ds = {} THEN NULL ELSE CHOOSE d \in ds : \A x \in ds : d <= x,
      meta_value |-> e.meta,
      n_quotas |-> CreationQuotas(table, e.pk),
      n_orders |-> CountNullable({r \in db.positions :
                      /\ r.event = e.pk
                      /\ r.status \in {STATUS_PAID, STATUS_PENDING}}),
      n_checkins |-> CountNullable({r \in db.positions :
                      /\ r.event = e.pk
                      /\ r.checkins > 0
                      /\ r.status \in {STATUS_PAID, STATUS_PENDING}})]
     : e \in db.events}

\* lines 605-668: CapacityCreationReport.iterate_date_agency over a quota table
CreationRowsWith(s, table) ==
    LET qs == {a \in AnnotatedEvents(table) :
                  /\ a.creation_datetime # NULL
                  /\ a.creation_datetime >= s.datetime_from
                  /\ a.creation_datetime < s.datetime_until
                  /\ a.meta_value \in Range(form_data.meta)}
        KeyOf(a) == <<TruncDay(a.creation_datetime), a.meta_value>>
        keys == OrderByDateValue({KeyOf(a) : a \in qs})
        Group(k) == {a \in qs : KeyOf(a) = k}
    IN  << [kind |-> "header",
            cells |-> <<"Event created", meta_name, "Number of Events",
                        "Sum of Quotas", "Sum of Orders", "Sum of Checked in">>] >>
        \o [i \in DOMAIN keys |->
               [kind |-> "data", date |-> strftime(DateOf(keys[i][1])),
                mv |-> keys[i][2],
                nums |-> <<OrZero(Cardinality(Group(keys[i]))),
                           OrZero(SumNullable(Group(keys[i]), "n_quotas")),
                           OrZero(SumNullable(Group(keys[i]), "n_orders")),
                           OrZero(SumNullable(Group(keys[i]), "n_checkins"))>>]]

\* lines 575-597: the rows CapacityCreationReport.iterate_sheet yields
CreationSheetRows(s, sheet) ==
    IF CreationHasIterate(sheet) THEN CreationRowsWith(s, db.quotas) ELSE <<>>

----------------------------------------------------------------------------
(* iterate_sheet called with any sheet key *)

\* the two exporters of the plugin
Reports == {"capacity_utilization", "capacity_creation"}

InitCall ==
    /\ Inputs
    /\ pc = "call"
    /\ call \in [report : Reports, sheet : Range(sheets) \cup {UnregisteredKey},
                 state : {"pending"}, error : {""}, rows : {<<>>}]
    /\ iter = NoIter
    /\ maps = NoMaps

\* hasattr(self, 'iterate_' + sheet) on the exporter that is called
CallHasIterate ==
    IF call.report = "capacity_utilization" THEN HasIterate(call.sheet)
    ELSE CreationHasIterate(call.sheet)

\* the fields iterate_sheet of the called exporter sets
CallSelf ==
    IF call.report = "capacity_utilization" THEN SelfOf(form_data)
    ELSE CreationSelfOf(form_data)

\* the rows iterate_sheet of the called exporter yields
CallRows ==
    IF call.report = "capacity_utilization"
    THEN SheetRows(SelfOf(form_data), call.sheet)
    ELSE CreationSheetRows(CreationSelfOf(form_data), call.sheet)

\* the four map queries are those of the utilization report only
CallQueries(fail) ==
    IF call.report = "capacity_utilization" THEN CountQueries(ncalls, fail)
    ELSE ncalls

\* getattr without the hasattr guard: an unknown key raises AttributeError
CallReturnsStrict ==
    /\ pc = "call"
    /\ self' = CallSelf
    /\ ncalls' = CallQueries(0)
    /\ call' = IF CallHasIterate
               THEN [call EXCEPT !.state = "returned", !.rows = CallRows]
               ELSE [call EXCEPT !.state = "raised", !.error = "AttributeError"]
    /\ pc' = "called"
    /\ UNCHANGED <<form_data, db, maps, i_sheet, wb, artifact, iter>>

\* list(iterate_sheet(form_data, sheet)) runs to the end of the generator
CallReturns ==
    /\ pc = "call"
    /\ self' = CallSelf
    /\ ncalls' = CallQueries(0)
    /\ call' = [call EXCEPT !.state = "returned", !.rows = CallRows]
    /\ pc' = "called"
    /\ UNCHANGED <<form_data, db, maps, i_sheet, wb, artifact, iter>>

\* one of its queries raises: one of the four map queries of the utilization
\* report, or the one query of the creation report's generator
CallRaises ==
    /\ pc = "call"
    /\ \/ /\ call.report = "capacity_utilization"
          /\ \E fail \in DOMAIN Streams : ncalls' = CallQueries(fail)
       \/ /\ call.report = "capacity_creation"
          /\ CreationHasIterate(call.sheet)
          /\ ncalls' = ncalls
    /\ self' = CallSelf
    /\ call' = [call EXCEPT !.state = "raised", !.error = "DatabaseError"]
    /\ pc' = "called"
    /\ UNCHANGED <<form_data, db, maps, i_sheet, wb, artifact, iter>>

NextCall == CallReturns \/ CallRaises

SpecCall == InitCall /\ [][NextCall]_vars

----------------------------------------------------------------------------
(* A pivot generator called directly, with maps of any content *)

\* the greatest sum stored in a map that is tried
MaxStored == 1

\* the keys a map that is tried may hold
MapKeys == {<<FirstDay, 1>>, <<FirstDay, 2>>, <<FirstDay + 1, 1>>}

\* maps as iterate_sheet builds them, lines 175-200: dicts keyed by (day,
\* event id); a count is at least 1, a stored sum may be None
MapsTried ==
    UNION {[subevs : {[k \in Ks |-> 1] : Ks \in SUBSET {k \in MapKeys : k[2] = 1}},
            quotas : [K -> {NULL} \cup 0..MaxStored],
            orders : {[k \in Ko |-> 1] : Ko \in SUBSET {k \in MapKeys : k[1] = FirstDay}},
            checkins : {[k \in {x \in K : x[2] = 1} |-> 1]}]
           : K \in SUBSET MapKeys}

InitGen ==
    /\ form_data \in [date_from : {FirstDay}, date_to : Days, product_name : {""},
                      meta : Selections]
    /\ db = Database([e \in EventIds |-> FirstDay], FirstDay)
    /\ self = SelfOf(form_data)
    /\ i_sheet = 1
    /\ wb = <<>>
    /\ ncalls = [st \in Range(Streams) |-> 0]
    /\ artifact = NoArtifact
    /\ call \in [report : {"capacity_utilization"}, sheet : Range(sheets),
                 state : {"pending"}, error : {""}, rows : {<<>>}]
    /\ iter = NoIter
    /\ maps \in MapsTried
    /\ pc = "generate"

\* list(getattr(self, 'iterate_' + sheet)(form_data, meta_values, subevs, ...))
GenerateRows ==
    /\ pc = "generate"
    /\ call' = [call EXCEPT !.state = "returned",
                            !.rows = Dispatch(self, call.sheet, MetaValues, maps.subevs,
                                              maps.quotas, maps.orders, maps.checkins)]
    /\ pc' = "generated"
    /\ UNCHANGED <<form_data, db, maps, self, i_sheet, wb, ncalls, artifact, iter>>

NextGen == GenerateRows

SpecGen == InitGen /\ [][NextGen]_vars

----------------------------------------------------------------------------
(* The range generators over a window of days *)

InitIter ==
    /\ form_data \in [date_from : IterDays, date_to : IterDays, product_name : {""},
                      meta : {<<"A1">>}]
    /\ db = Database([e \in EventIds |-> FirstDay], FirstDay)
    /\ self = [Unset EXCEPT !.date_from = form_data.date_from,
                            !.date_until = form_data.date_to]
    /\ i_sheet = 1
    /\ wb = <<>>
    /\ ncalls = [st \in Range(Streams) |-> 0]
    /\ artifact = NoArtifact
    /\ call = NoCall
    /\ iter = NoIter
    /\ maps = NoMaps
    /\ pc = "date_iter"

\* list(self._date_iter())
CallDateIter ==
    /\ pc = "date_iter"
    /\ iter' = [iter EXCEPT !.days = _date_iter]
    /\ pc' = "week_iter"
    /\ UNCHANGED <<form_data, db, maps, self, i_sheet, wb, ncalls, artifact, call>>

\* list(self._week_iter())
CallWeekIter ==
    /\ pc = "week_iter"
    /\ iter' = [iter EXCEPT !.weeks = _week_iter]
    /\ pc' = "iterated"
    /\ UNCHANGED <<form_data, db, maps, self, i_sheet, wb, ncalls, artifact, call>>

NextIter == CallDateIter \/ CallWeekIter

SpecIter == InitIter /\ [][NextIter]_vars

----------------------------------------------------------------------------
(* Properties *)

\* ordinal 6 (0001-01-06) is a Saturday, and so is every seventh day after it
IsSaturday(d) == d % 7 = 6

\* C1: once _date_iter has run over (date_from, date_to), its output is exactly
\* the dates date_from <= d <= date_to, ascending by one day with no gap: it
\* has (date_to - date_from) + 1 elements when date_from <= date_to and none
\* (and no error) when date_from > date_to.
C1_DateIterExact ==
    pc \in {"week_iter", "iterated"} =>
        LET a == form_data.date_from
            b == form_data.date_to
        IN  /\ Len(iter.days) = IF a <= b THEN (b - a) + 1 ELSE 0
            /\ \A i \in 1..Len(iter.days) : iter.days[i] = a + (i - 1)
            /\ Range(iter.days) = {d \in IterDays : a <= d /\ d <= b}

\* a range of more than a week has been iterated
C1_Witness ==
    /\ pc = "week_iter"
    /\ form_data.date_to - form_data.date_from >= 8
    /\ Len(iter.days) >= 9

\* C2: the week buckets of _week_iter, concatenated in order, are exactly the
\* day sequence of _date_iter; no bucket is empty; every bucket ends on a
\* Saturday or is the last bucket.
C2_WeekBucketsPartition ==
    pc = "iterated" =>
        /\ Concat(iter.weeks) = iter.days
        /\ \A k \in 1..Len(iter.weeks) :
              /\ iter.weeks[k] # <<>>
              /\ \/ IsSaturday(iter.weeks[k][Len(iter.weeks[k])])
                 \/ k = Len(iter.weeks)

\* a range starting mid-week, crossing two Saturdays and ending mid-week
C2_Witness ==
    /\ pc = "iterated"
    /\ Len(iter.weeks) = 3
    /\ Len(iter.weeks[1]) < 7
    /\ Len(iter.weeks[2]) = 7
    /\ ~IsSaturday(iter.weeks[3][Len(iter.weeks[3])])

----------------------------------------------------------------------------
(* What the tables hold for an event on a day, whatever window and values   *)
(* the report was asked for: the reference the sheets are compared with.    *)

SlotsOn(e, d) ==
    Cardinality({r \in db.subevents : r.event = e /\ DateOf(r.date_from) = d})

QuotaOn(e, d) ==
    SumOver({r \in db.quotas : r.event = e /\ r.size # NULL
                               /\ DateOf(CoalesceDate(r)) = d}, "size")

\* the quotas scoped to a timeslot only
SlotQuotaOn(e, d) ==
    SumOver({r \in db.quotas : r.event = e /\ r.size # NULL /\ r.subevent # NULL
                               /\ DateOf(CoalesceDate(r)) = d}, "size")

OrdersOn(e, d) ==
    Cardinality({r \in db.positions : r.event = e
                    /\ r.status \in {STATUS_PAID, STATUS_PENDING}
                    /\ DateOf(CoalesceDate(r)) = d})

CheckinsOn(e, d) ==
    Cardinality({r \in db.positions : r.event = e
                    /\ r.status \in {STATUS_PAID, STATUS_PENDING}
                    /\ r.checkins > 0
                    /\ DateOf(CoalesceDate(r)) = d})

\* a metric summed over every event of the report's event set
OverAllEvents(Metric(_, _), d) ==
    SeqSum([e \in 1..Cardinality(EventIds) |-> Metric(e, d)])

\* and over the days of a week bucket as well
OverAllEventsInWeek(Metric(_, _), w) ==
    SeqSum([i \in DOMAIN w |-> OverAllEvents(Metric, w[i])])

Activity(e, d) ==
    SlotsOn(e, d) > 0 \/ QuotaOn(e, d) > 0 \/ OrdersOn(e, d) > 0 \/ CheckinsOn(e, d) > 0

\* the days any timeslot, quota or position of the event is dated on
FactDays(e) ==
    {DateOf(r.date_from) : r \in {x \in db.subevents : x.event = e}}
    \cup {DateOf(CoalesceDate(r)) : r \in {x \in db.quotas : x.event = e}}
    \cup {DateOf(CoalesceDate(r)) : r \in {x \in db.positions : x.event = e}}

Selected == Range(form_data.meta)
RangeDates == DateIter(form_data.date_from, form_data.date_to)
RangeWeeks == WeekIter(form_data.date_from, form_data.date_to)

\* the worksheet of a key has received the rows of its generator
Rendered(title) == \E i \in DOMAIN wb : wb[i].title = title /\ wb[i].rows # <<>>
RowsOf(title) == wb[CHOOSE i \in DOMAIN wb : wb[i].title = title].rows

\* the data rows of a sheet for one agency value / one event
RowsOfValue(title, mv) ==
    SelectSeq(RowsOf(title), LAMBDA r : r.kind = "data" /\ r.mv = mv)
RowsOfEvent(title, slug) ==
    SelectSeq(RowsOf(title), LAMBDA r : r.kind = "data" /\ r.slug = slug)

\* C3: in the day and week matrices every cell of the trailing Total block is
\* the metric summed over every event of the event set for that date (or
\* week bucket), whatever agency values were selected.
C3_TotalOverEveryEntity ==
    /\ Rendered("agency_date_day") =>
          LET rows == RowsOf("agency_date_day")
              n == Len(rows)
          IN  \A k \in DOMAIN RangeDates :
                 /\ rows[n - 2].cols[k] = OverAllEvents(QuotaOn, RangeDates[k])
                 /\ rows[n - 1].cols[k] = OverAllEvents(OrdersOn, RangeDates[k])
                 /\ rows[n].cols[k] = OverAllEvents(CheckinsOn, RangeDates[k])
    /\ Rendered("agency_date_week") =>
          LET rows == RowsOf("agency_date_week")
              n == Len(rows)
          IN  \A k \in DOMAIN RangeWeeks :
                 /\ rows[n - 2].cols[k] = OverAllEventsInWeek(QuotaOn, RangeWeeks[k])
                 /\ rows[n - 1].cols[k] = OverAllEventsInWeek(OrdersOn, RangeWeeks[k])
                 /\ rows[n].cols[k] = OverAllEventsInWeek(CheckinsOn, RangeWeeks[k])

\* C4 as stated: per selected value, the 'By date and agency' sheet has as many
\* data rows as the range has dates on which an event of that value has a
\* timeslot, quota, order or check-in.
C4_RowsAreDaysWithActivity ==
    Rendered("date_agency") =>
        \A mv \in Selected :
            Len(RowsOfValue("date_agency", mv)) =
                Cardinality({d \in Range(RangeDates) :
                    \E e \in db.events : e.meta = mv /\ Activity(e.pk, d)})

\* an event takes place on d for the sheet: it is no series, or it has a timeslot
Occurs(e, d) == ~e.has_subevents \/ SlotsOn(e.pk, d) > 0
OccurringOn(mv, d) == {e \in db.events : e.meta = mv /\ Occurs(e, d)}

\* C4, amended: per selected value the data rows of the 'By date and agency'
\* sheet are, in date order, the dates of the range on which an event of that
\* value either is no series or has a timeslot, each row counting those
\* events: a series without a timeslot on a date causes no row there, an
\* event without sub-occurrences causes one on every date of the range.
C4_RowsAreDaysOfOccurrence ==
    Rendered("date_agency") =>
        \A mv \in Selected :
            LET rows == RowsOfValue("date_agency", mv)
                days == SelectSeq(RangeDates, LAMBDA d : OccurringOn(mv, d) # {})
            IN  /\ Len(rows) = Len(days)
                /\ \A i \in DOMAIN rows :
                      /\ rows[i].date = strftime(days[i])
                      /\ rows[i].nums[1] = Cardinality(OccurringOn(mv, days[i]))

\* a selected value whose events are all series has rows on some dates of the
\* range and none on others
C4_Witness ==
    /\ Rendered("date_agency")
    /\ \E mv \in Selected :
          /\ \A e \in db.events : e.meta = mv => e.has_subevents
          /\ Len(RowsOfValue("date_agency", mv)) > 0
          /\ Len(RowsOfValue("date_agency", mv)) < Len(RangeDates)

\* the one row C5 expects of an event whose facts are all dated d
RowOfDay(e, d) ==
    [kind |-> "data", date |-> strftime(d), mv |-> e.meta, slug |-> e.slug,
     nums |-> <<SlotsOn(e.pk, d), SlotQuotaOn(e.pk, d), OrdersOn(e.pk, d),
                CheckinsOn(e.pk, d)>>]

\* C5 as stated: in the 'By date, agency, and event' sheet an event of a
\* selected value whose facts are all dated on one day d of the range has
\* exactly one data row, that of d, with its timeslot, order and check-in
\* counts, be it a series or not.  (The quota cell the claim also names is
\* left out here: what enters the quota map is the matter of C13.)
C5_OneRowForTheOneDay ==
    Rendered("date_agency_event") =>
        \A e \in db.events : \A d \in Range(RangeDates) :
            (e.meta \in Selected /\ FactDays(e.pk) = {d}) =>
                LET rows == RowsOfEvent("date_agency_event", e.slug)
                IN  /\ Len(rows) = 1
                    /\ rows[1].date = strftime(d)
                    /\ rows[1].nums[1] = SlotsOn(e.pk, d)
                    /\ rows[1].nums[3] = OrdersOn(e.pk, d)
                    /\ rows[1].nums[4] = CheckinsOn(e.pk, d)

\* C5, amended: an event with sub-occurrences, of a selected value, whose
\* facts are all dated on one day d of the range has exactly one data row,
\* that of d, with its timeslot count, the sum of the quotas of its timeslots,
\* its order count and its check-in count.  An event without sub-occurrences
\* has one data row for every date of the range, with 0 timeslots and the
\* order and check-in counts of that date.
C5_OneRowForTheOneDayOfSeries ==
    Rendered("date_agency_event") =>
        \A e \in db.events :
            e.meta \in Selected =>
                LET rows == RowsOfEvent("date_agency_event", e.slug)
                IN  /\ e.has_subevents =>
                          \A d \in Range(RangeDates) :
                              FactDays(e.pk) = {d} => rows = <<RowOfDay(e, d)>>
                    /\ ~e.has_subevents =>
                          /\ Len(rows) = Len(RangeDates)
                          /\ \A i \in DOMAIN rows :
                                /\ rows[i].date = strftime(RangeDates[i])
                                /\ rows[i].nums[1] = 0
                                /\ rows[i].nums[3] = OrdersOn(e.pk, RangeDates[i])
                                /\ rows[i].nums[4] = CheckinsOn(e.pk, RangeDates[i])

\* a series with two timeslots, all of its facts on one day inside a longer range
C5_Witness ==
    /\ Rendered("date_agency_event")
    /\ Len(RangeDates) >= 2
    /\ \E e \in db.events : \E d \in Range(RangeDates) :
          /\ e.meta \in Selected
          /\ e.has_subevents
          /\ FactDays(e.pk) = {d}
          /\ SlotsOn(e.pk, d) = 2
          /\ Len(RowsOfEvent("date_agency_event", e.slug)) = 1

C8_ReversedRangeHeaderOnly ==
    (pc = "done" /\ form_data.date_to < form_data.date_from) =>
        \A i \in DOMAIN wb : \A j \in DOMAIN wb[i].rows :
            wb[i].rows[j].kind = "header"

\* the rows of a matrix sheet rendered without any date or week column:
\* `h` header rows, then per selected value three metric rows and a separator,
\* then the three rows of the Total block
EmptyMatrix(rows, h) ==
    LET n == Len(form_data.meta)
    IN  /\ Len(rows) = h + 4 * n + 3
        /\ \A j \in 1..h : rows[j].kind = "header" /\ rows[j].cols = <<>>
        /\ \A b \in 1..n : \A j \in 1..4 :
              LET r == rows[h + 4 * (b - 1) + j]
              IN  IF j = 4 THEN r.kind = "blank"
                  ELSE r.kind = "metric" /\ r.cols = <<>>
        /\ \A j \in 1..3 :
              LET r == rows[h + 4 * n + j]
              IN  r.kind = "metric" /\ r.cols = <<>>
        /\ rows[h + 4 * n + 1].cells[1] = "Total"

\* C8, amended: with date_to before date_from no error is raised; the 'By
\* date, agency, and event' and 'By date and agency' sheets hold their header
\* row only; the two matrix sheets hold their header row(s) without any date or
\* week column and still, per selected value, the three metric rows and the
\* separator row, and the Total block, none with a value cell.
C8_ReversedRangeNoValues ==
    (pc = "done" /\ form_data.date_to < form_data.date_from) =>
        /\ Len(wb) = Len(sheets)
        /\ \A i \in 1..2 : Len(wb[i].rows) = 1 /\ wb[i].rows[1].kind = "header"
        /\ EmptyMatrix(wb[3].rows, 1)
        /\ EmptyMatrix(wb[4].rows, 3)

\* a report over a reversed range, two values selected, ran to its end
C8_Witness ==
    /\ pc = "done"
    /\ form_data.date_to < form_data.date_from
    /\ Len(form_data.meta) = 2
    /\ \A i \in DOMAIN sheets : Rendered(sheets[i])

\* the agency values heading the blocks of a matrix sheet, Total left out
BlockLabels(title) ==
    LET heads == SelectSeq(RowsOf(title),
                    LAMBDA r : r.kind = "metric" /\ r.cells[2] = "Sum of Quotas"
                               /\ r.cells[1] # "Total")
    IN  [i \in DOMAIN heads |-> heads[i].cells[1]]

\* the agency value of each data row of a row sheet
RowValues(title) ==
    LET data == SelectSeq(RowsOf(title), LAMBDA r : r.kind = "data")
    IN  [i \in DOMAIN data |-> data[i].mv]

\* where a value stands in a sequence of distinct values
IndexIn(seq, v) == CHOOSE i \in DOMAIN seq : seq[i] = v

\* the values of `vals`, in order, follow the order of `order` and are among it
FollowsOrder(vals, order) ==
    /\ \A i \in DOMAIN vals : vals[i] \in Range(order)
    /\ \A i, j \in DOMAIN vals : i < j => IndexIn(order, vals[i]) <= IndexIn(order, vals[j])

\* the selected values in ascending order
SelectedAscending == SelectSeq(AgencyOrder, LAMBDA v : v \in Selected)

\* C9 as stated: in every pivot view exactly the selected values have a block,
\* and the blocks come in ascending order of the value, whatever the order
\* the selection was handed over in.
C9_BlocksInAscendingOrder ==
    pc = "done" =>
        /\ BlockLabels("agency_date_day") = SelectedAscending
        /\ BlockLabels("agency_date_week") = SelectedAscending
        /\ FollowsOrder(RowValues("date_agency_event"), SelectedAscending)
        /\ FollowsOrder(RowValues("date_agency"), SelectedAscending)

\* C9, amended: the blocks come in the order the selected values are handed
\* over in (ascending only if handed over ascending): each matrix sheet has
\* exactly one block per selected value and none for another value, in that
\* order; the data rows of the two row sheets carry selected values only,
\* grouped by value in that order.
C9_BlocksInSelectionOrder ==
    pc = "done" =>
        /\ BlockLabels("agency_date_day") = form_data.meta
        /\ BlockLabels("agency_date_week") = form_data.meta
        /\ FollowsOrder(RowValues("date_agency_event"), form_data.meta)
        /\ FollowsOrder(RowValues("date_agency"), form_data.meta)

\* both values selected, the greater first, and both with rows in the row sheets
C9_Witness ==
    /\ pc = "done"
    /\ form_data.meta = <<"A2", "A1">>
    /\ Range(RowValues("date_agency_event")) = {"A1", "A2"}
    /\ Range(RowValues("date_agency")) = {"A1", "A2"}

\* C10: once a query of iterate_sheet has failed, sheet generation is over and
\* the workbook is never saved: the invocation hands back no artifact, neither
\* a written file nor bytes.  An artifact exists only of an invocation whose
\* every sheet was generated with all its queries answered.
C10_NoArtifactAfterFailure ==
    /\ pc = "error" => (artifact = NoArtifact /\ ~ENABLED Next)
    /\ artifact # NoArtifact =>
          /\ pc = "done"
          /\ \A i \in DOMAIN sheets : Rendered(sheets[i])
          /\ \A st \in Range(Streams) : ncalls[st] = Len(sheets)

\* a query failed on the third sheet, the first two being fully generated
C10_Witness ==
    /\ pc = "error"
    /\ i_sheet = 3
    /\ Rendered(sheets[1]) /\ Rendered(sheets[2])
    /\ Len(wb[1].rows) > 1
    /\ ncalls["subevs"] = 3 /\ ncalls["checkins"] = 2

----------------------------------------------------------------------------
(* Quota sums and unlimited quotas *)

\* the quota table with every unlimited quota taken away
WithoutUnlimited == {q \in db.quotas : q.size # NULL}

\* the quota table with one more unlimited quota on every timeslot and on
\* every event
WithMoreUnlimited ==
    db.quotas
    \cup {[pk |-> 100 + se.pk, event |-> se.event, subevent |-> se.pk, size |-> NULL]
            : se \in db.subevents}
    \cup {[pk |-> 200 + e.pk, event |-> e.pk, subevent |-> NULL, size |-> NULL]
            : e \in db.events}

\* the rows the finished call would have yielded over another quota table
RowsOver(table) ==
    IF call.report = "capacity_utilization"
    THEN SheetRowsWith(self, call.sheet, QuotaMap(QuotaRows(self, table)))
    ELSE IF CreationHasIterate(call.sheet) THEN CreationRowsWith(self, table)
         ELSE <<>>

RECURSIVE LimitedSizes(_)
\* the sizes of the limited quotas among a set of quotas, added up one quota
\* after the other in the order of their keys
LimitedSizes(S) ==
    IF S = {} THEN 0
    ELSE LET q == CHOOSE x \in S : \A y \in S : x.pk <= y.pk
         IN  (IF q.size = NULL THEN 0 ELSE q.size) + LimitedSizes(S \ {q})

\* the day an event was created: that of its first log entry
CreatedOn(e) ==
    LET ds == {l.datetime : l \in {l \in db.logs : l.event = e}}
    IN  DateOf(CHOOSE d \in ds : \A x \in ds : d <= x)

\* C11: the quota sum reported in any sheet of the utilization report and in
\* the creation report is the sum of the sizes of the quotas with a non-null
\* size only, and taking away or adding quotas with null size leaves every
\* reported row as it is.
C11_UnlimitedQuotasLeftOut ==
    (pc = "called" /\ call.state = "returned") =>
        /\ call.rows = RowsOver(WithoutUnlimited)
        /\ call.rows = RowsOver(WithMoreUnlimited)
        /\ call.report = "capacity_utilization" =>
              \A k \in DOMAIN Quotas(self) :
                 Quotas(self)[k] =
                    LimitedSizes({q \in _base_quota_qs(self) : FactKey(q) = k})
        /\ (call.report = "capacity_utilization" /\ call.sheet = "date_agency_event") =>
              \A i \in DOMAIN call.rows :
                 call.rows[i].kind = "data" =>
                    \E d \in Days, e \in db.events :
                       /\ call.rows[i].date = strftime(d)
                       /\ call.rows[i].slug = e.slug
                       /\ call.rows[i].nums[2] =
                             LimitedSizes({q \in _base_quota_qs(self) :
                                              FactKey(q) = <<d, e.pk>>})
        /\ (call.report = "capacity_creation" /\ CreationHasIterate(call.sheet)) =>
              \A i \in DOMAIN call.rows :
                 call.rows[i].kind = "data" =>
                    \E d \in Days :
                       /\ call.rows[i].date = strftime(d)
                       /\ call.rows[i].nums[2] =
                             LimitedSizes({q \in db.quotas :
                                /\ EventOf(q.event).meta = call.rows[i].mv
                                /\ CreatedOn(q.event) = d})

\* a finished call whose per-event sheet shows the 10 places of e1 on the day
\* of its first timeslot, which has an unlimited quota as well
C11_Witness ==
    /\ pc = "called"
    /\ call.state = "returned"
    /\ call.report = "capacity_utilization"
    /\ call.sheet = "date_agency_event"
    /\ \E q \in _base_quota_qs(self) : q.size = NULL /\ q.event = 1
    /\ \E i \in DOMAIN call.rows :
          /\ call.rows[i].kind = "data"
          /\ call.rows[i].slug = "e1"
          /\ call.rows[i].nums[2] = 10

\* the creation report's row of agency A1 with the 30 places of e1, an event
\* that has an unlimited quota as well
C11_CreationCase ==
    /\ pc = "called"
    /\ call.state = "returned"
    /\ call.report = "capacity_creation"
    /\ call.sheet = "date_agency"
    /\ \E i \in DOMAIN call.rows :
          /\ call.rows[i].kind = "data"
          /\ call.rows[i].mv = "A1"
          /\ call.rows[i].nums[2] = 30

----------------------------------------------------------------------------
(* Lookups in the maps *)

\* what a map holds for an event on a day, a missing entry and a stored None
\* both taken as 0
Stored(map, d, e) ==
    IF <<d, e>> \notin DOMAIN map THEN 0
    ELSE IF map[<<d, e>>] = NULL THEN 0 ELSE map[<<d, e>>]

RECURSIVE StoredOver(_, _, _)
\* the same added up over a set of days and a set of events
StoredOver(map, D, E) ==
    IF D = {} \/ E = {} THEN 0
    ELSE LET e == CHOOSE x \in E : TRUE
             d == CHOOSE x \in D : TRUE
         IN  Stored(map, d, e) + StoredOver(map, D \ {d}, {e})
             + StoredOver(map, D, E \ {e})

\* the ids of the events of an agency value / of all events
EventsOfValue(mv) == {e.pk : e \in {x \in db.events : x.meta = mv}}
AllEvents == {e.pk : e \in db.events}

\* the three metric rows of the block-th block of a matrix with h header rows
\* hold, column by column, the stored sums of the events E over the days of
\* the column
BlockHolds(rows, h, block, E, columns) ==
    LET base == h + 4 * (block - 1)
    IN  /\ Len(rows) >= base + 3
        /\ \A k \in DOMAIN columns :
              /\ rows[base + 1].cols[k] = StoredOver(maps.quotas, Range(columns[k]), E)
              /\ rows[base + 2].cols[k] = StoredOver(maps.orders, Range(columns[k]), E)
              /\ rows[base + 3].cols[k] = StoredOver(maps.checkins, Range(columns[k]), E)

\* C12: whatever the four maps hold, the pivot generators run to their end and
\* every figure they report is made of the stored entries alone: a (date,
\* event) key missing from a map counts 0, and so does a quota entry that is
\* stored as null.
C12_MissingEntriesCountZero ==
    pc = "generated" =>
        /\ call.state = "returned"
        /\ call.sheet = "date_agency_event" =>
              \A i \in DOMAIN call.rows :
                 call.rows[i].kind = "data" =>
                    \E d \in Range(RangeDates), e \in db.events :
                       /\ call.rows[i].date = strftime(d)
                       /\ call.rows[i].slug = e.slug
                       /\ call.rows[i].nums =
                            <<Stored(maps.subevs, d, e.pk), Stored(maps.quotas, d, e.pk),
                              Stored(maps.orders, d, e.pk), Stored(maps.checkins, d, e.pk)>>
        /\ call.sheet = "date_agency" =>
              \A i \in DOMAIN call.rows :
                 call.rows[i].kind = "data" =>
                    \E d \in Range(RangeDates) :
                       /\ call.rows[i].date = strftime(d)
                       /\ SubSeq(call.rows[i].nums, 2, 4) =
                            <<StoredOver(maps.quotas, {d}, EventsOfValue(call.rows[i].mv)),
                              StoredOver(maps.orders, {d}, EventsOfValue(call.rows[i].mv)),
                              StoredOver(maps.checkins, {d}, EventsOfValue(call.rows[i].mv))>>
        /\ call.sheet = "agency_date_day" =>
              LET columns == [k \in DOMAIN RangeDates |-> <<RangeDates[k]>>]
              IN  /\ \A b \in DOMAIN form_data.meta :
                        BlockHolds(call.rows, 1, b, EventsOfValue(form_data.meta[b]), columns)
                  /\ BlockHolds(call.rows, 1, Len(form_data.meta) + 1, AllEvents, columns)
        /\ call.sheet = "agency_date_week" =>
              /\ \A b \in DOMAIN form_data.meta :
                    BlockHolds(call.rows, 3, b, EventsOfValue(form_data.meta[b]), RangeWeeks)
              /\ BlockHolds(call.rows, 3, Len(form_data.meta) + 1, AllEvents, RangeWeeks)

\* the per-event sheet holds the row of e2 on the first day, where the quota
\* map stores a null, the order map holds nothing and the cells are 0, next to
\* a row of e1 with a stored quota sum
C12_Witness ==
    /\ pc = "generated"
    /\ call.sheet = "date_agency_event"
    /\ <<FirstDay, 2>> \in DOMAIN maps.quotas
    /\ maps.quotas[<<FirstDay, 2>>] = NULL
    /\ <<FirstDay, 2>> \notin DOMAIN maps.orders
    /\ \E i \in DOMAIN call.rows :
          /\ call.rows[i].kind = "data"
          /\ call.rows[i].slug = "e2"
          /\ call.rows[i].date = strftime(FirstDay)
          /\ call.rows[i].nums = <<0, 0, 0, 0>>
    /\ \E i \in DOMAIN call.rows :
          /\ call.rows[i].kind = "data"
          /\ call.rows[i].slug = "e1"
          /\ call.rows[i].nums[2] = MaxStored

----------------------------------------------------------------------------
(* The day a quota is counted under *)

\* C13: in the quota map of a finished call, the entry of (d, e) for a day d
\* of the window and an event e of a selected agency value is the sum of the
\* non-null sizes of e's quotas dated on d, where a quota scoped to a timeslot
\* is dated by the timeslot and a quota scoped to none by the event itself.
C13_QuotaKeyedByCoalescedDate ==
    (pc = "called" /\ call.report = "capacity_utilization" /\ call.state = "returned") =>
        \A e \in db.events, d \in Range(RangeDates) :
           e.meta \in Selected =>
              Get(Quotas(self), <<d, e.pk>>) = QuotaOn(e.pk, d)

----------------------------------------------------------------------------
(* The week matrix against the day matrix *)

\* the ordinal of a date cell written by strftime
OrdinalOf(cell) == cell[2]

\* the cells of a row of the day matrix whose column date lies in first..last
DayCellsWithin(header, row, first, last) ==
    SeqSum([i \in DOMAIN row.cols |->
               IF OrdinalOf(header.cols[i]) \in first..last THEN row.cols[i] ELSE 0])

\* C14: row by row the week matrix is the day matrix added up by week: each
\* metric cell of 'By agency and week' is the sum of the cells of the same row
\* of 'By agency and day' over the dates from the week's first to its last
\* day, and the sum of a row is the same in both sheets.
C14_WeekCellsSumDayCells ==
    pc = "done" =>
        LET day == RowsOf("agency_date_day")
            week == RowsOf("agency_date_week")
        IN  /\ Len(week) = Len(day) + 2
            /\ \A j \in 2..Len(day) :
                  /\ week[j + 2].kind = day[j].kind
                  /\ day[j].kind = "metric" =>
                        /\ week[j + 2].cells = day[j].cells
                        /\ \A k \in DOMAIN week[j + 2].cols :
                              week[j + 2].cols[k] =
                                 DayCellsWithin(day[1], day[j],
                                                OrdinalOf(week[2].cols[k]),
                                                OrdinalOf(week[3].cols[k]))
                        /\ SeqSum(week[j + 2].cols) = SeqSum(day[j].cols)

\* a range of two weeks, the first of two days, and a row whose first week
\* cell adds up two day cells that are both filled
C14_Witness ==
    /\ pc = "done"
    /\ Len(RowsOf("agency_date_week")[2].cols) = 2
    /\ \E j \in 2..Len(RowsOf("agency_date_day")) :
          /\ RowsOf("agency_date_day")[j].kind = "metric"
          /\ RowsOf("agency_date_day")[j].cols[1] > 0
          /\ RowsOf("agency_date_day")[j].cols[2] > 0
          /\ RowsOf("agency_date_week")[j + 2].cols[1] =
                RowsOf("agency_date_day")[j].cols[1] + RowsOf("agency_date_day")[j].cols[2]

----------------------------------------------------------------------------
(* The two row sheets against each other *)

\* the data rows of the per-event sheet for a date cell and an agency value
PerEventRows(date, mv) ==
    SelectSeq(RowsOf("date_agency_event"),
              LAMBDA r : r.kind = "data" /\ r.date = date /\ r.mv = mv)

\* the k-th figure of a sequence of rows, added up
ColumnSum(rows, k) == SeqSum([i \in DOMAIN rows |-> rows[i].nums[k]])

\* C15: every data row (date, agency) of 'By date and agency' agrees with the
\* rows of 'By date, agency, and event' for that date and agency: its number
\* of events is the number of those rows, and its quota, order and check-in
\* sums are the sums of their quota, order and check-in columns.
C15_AgencyRowsSumEventRows ==
    pc = "done" =>
        \A i \in DOMAIN RowsOf("date_agency") :
           LET r == RowsOf("date_agency")[i]
           IN  r.kind = "data" =>
                  LET per == PerEventRows(r.date, r.mv)
                  IN  /\ r.nums[1] = Len(per)
                      /\ r.nums[2] = ColumnSum(per, 2)
                      /\ r.nums[3] = ColumnSum(per, 3)
                      /\ r.nums[4] = ColumnSum(per, 4)

\* a row of 'By date and agency' that counts two events, both with a quota
\* sum and orders of their own in the per-event sheet
C15_Witness ==
    /\ pc = "done"
    /\ \E i \in DOMAIN RowsOf("date_agency") :
          LET r == RowsOf("date_agency")[i]
          IN  /\ r.kind = "data"
              /\ r.nums[1] = 2
              /\ r.nums[4] > 0
              /\ Len(PerEventRows(r.date, r.mv)) = 2
              /\ \A k \in 1..2 : PerEventRows(r.date, r.mv)[k].nums[3] > 0
              /\ \E k \in 1..2 : PerEventRows(r.date, r.mv)[k].nums[2] > 0

----------------------------------------------------------------------------
(* The hooks and the date range of the instance *)

\* the worksheet of a matrix sheet was laid out for the range of the form
LaidOutForRange(ws) ==
    /\ ws.title = "agency_date_day" => ws.hint.widths = 2 + Len(RangeDates)
    /\ ws.title = "agency_date_week" => ws.hint.widths = 2 + Len(RangeWeeks)

\* C16: whenever _render_xlsx is about to run, or has run, the hook of a sheet
\* whose hook reads the date range ('By agency and day', 'By agency and
\* week'), iterate_sheet has run before in the same invocation and the
\* instance's date_from and date_until are those of this invocation's form:
\* no hook finds the range unset, and every such worksheet is laid out for the
\* range of the form.
C16_HooksFindRangeSet ==
    /\ (pc = "prepare" /\ HookReadsRange(sheets[i_sheet])) =>
          /\ self.date_from = form_data.date_from
          /\ self.date_until = form_data.date_to
          /\ \A st \in Range(Streams) : ncalls[st] >= 1
          /\ \E j \in 1..(i_sheet - 1) : ~HookReadsRange(sheets[j])
    /\ \A i \in DOMAIN wb :
          HookReadsRange(wb[i].title) =>
             /\ wb[i].hint.freeze_panes # ""
             /\ LaidOutForRange(wb[i])

\* the hook of 'By agency and day' has run for a range of three days, after
\* the two row sheets were generated
C16_Witness ==
    /\ pc = "iterate"
    /\ i_sheet = 3
    /\ wb[3].title = "agency_date_day"
    /\ form_data.date_to = form_data.date_from + 2
    /\ wb[3].hint.widths = 5
    /\ Len(wb[1].rows) > 1

====
